---- MODULE Spec2Model ----
(***************************************************************************)
(* Model of the Markdown export engine of docuextract_ai                   *)
(* (exportToPDF / exportToWord and their helpers).                         *)
(*                                                                         *)
(* A JavaScript string is modelled as a sequence of one-character strings, *)
(* so that every string operation of the source (trim, startsWith,         *)
(* includes, split, replace, the link regular expression) is computed      *)
(* character by character, the way the engine computes it.                 *)
(***************************************************************************)
EXTENDS Integers, Sequences, FiniteSets, TLC

\* ------------------------------------------------------------------------
\* Bounds of the model
\* ------------------------------------------------------------------------

\* Largest number of lines of a Markdown input.
MaxLines == 3

\* Characters that fit on one wrapped line of the paginated sink (the
\* printable width maxLineWidth measured in characters). The page is scaled
\* down so that a few lines of input fill it.
CharsPerLine == 1

\* Length of the long paragraph line used to fill a page.
LongLen == 46

\* Largest length of a text span tried on the link extraction.
MaxSpan == 5

\* The number of times an export is called again after it has finished.
MaxCalls == 3

\* The number of submissions (a file chosen, the URL form submitted) a user makes.
MaxSubmits == 2

\* ------------------------------------------------------------------------
\* Strings: sequences of one-character strings
\* ------------------------------------------------------------------------

Min(S) == CHOOSE x \in S : \A y \in S : x <= y

\* s.substring(a, b) with 0-based a (inclusive) and b (exclusive).
Substring(s, a, b) == IF b <= a THEN << >> ELSE SubSeq(s, a + 1, b)

IsWS(c) == c \in {" ", "\t", "\n"}

\* String.prototype.trim
Trim(s) ==
  LET keep == {k \in 1..Len(s) : ~IsWS(s[k])}
  IN  IF keep = {} THEN << >>
      ELSE SubSeq(s, Min(keep), CHOOSE k \in keep : \A j \in keep : j <= k)

\* s.startsWith(p)
StartsWith(s, p) == Len(s) >= Len(p) /\ SubSeq(s, 1, Len(p)) = p

\* 1-based positions at which pat occurs in s.
Occurrences(s, pat) ==
  {k \in 1..(Len(s) - Len(pat) + 1) : SubSeq(s, k, k + Len(pat) - 1) = pat}

\* s.includes(pat)
Includes(s, pat) == Occurrences(s, pat) # {}

\* s.replace(/pat/g, rep) for a literal pattern: leftmost, non-overlapping.
RECURSIVE ReplaceAll(_, _, _)
ReplaceAll(s, pat, rep) ==
  IF Len(s) < Len(pat) THEN s
  ELSE IF SubSeq(s, 1, Len(pat)) = pat
       THEN rep \o ReplaceAll(SubSeq(s, Len(pat) + 1, Len(s)), pat, rep)
       ELSE <<s[1]>> \o ReplaceAll(SubSeq(s, 2, Len(s)), pat, rep)

\* s.replace(pat, rep) for a string pattern: the first occurrence only.
ReplaceFirst(s, pat, rep) ==
  IF ~Includes(s, pat) THEN s
  ELSE LET k == Min(Occurrences(s, pat))
       IN  SubSeq(s, 1, k - 1) \o rep \o SubSeq(s, k + Len(pat), Len(s))

\* s.split(c) for a one-character separator c: always at least one field.
RECURSIVE Split(_, _)
Split(s, c) ==
  LET at == {k \in 1..Len(s) : s[k] = c}
  IN  IF at = {} THEN <<s>>
      ELSE <<SubSeq(s, 1, Min(at) - 1)>> \o Split(SubSeq(s, Min(at) + 1, Len(s)), c)

\* array.filter(keep) on a sequence, keep given as the set of kept values' test.
RECURSIVE FilterNonBlank(_)
FilterNonBlank(fs) ==
  IF fs = << >> THEN << >>
  ELSE IF Trim(Head(fs)) # << >>
       THEN <<Head(fs)>> \o FilterNonBlank(Tail(fs))
       ELSE FilterNonBlank(Tail(fs))

RECURSIVE Join(_, _)
Join(ls, c) ==
  IF Len(ls) = 0 THEN << >>
  ELSE IF Len(ls) = 1 THEN ls[1]
       ELSE ls[1] \o <<c>> \o Join(Tail(ls), c)

\* Markers used by the engine.
BOLD == <<"*", "*">>
BR == <<"<", "b", "r", ">">>
NL == <<"\n">>
DASHES == <<"-", "-", "-">>
H1 == <<"#", " ">>
H2 == <<"#", "#", " ">>
H3 == <<"#", "#", "#", " ">>
PIPE == <<"|">>
\* The backtick (U+0060), written as the circumflex: the lexer of the tools
\* does not accept a backtick inside a string.
TICK == <<"^">>

\* ------------------------------------------------------------------------
\* The link regular expression linkRegex: [ label ]( url ), global,
\* both groups lazy
\* ------------------------------------------------------------------------

\* A dot matches every character but a line terminator.
NoNL(t, a, b) == \A k \in a..b : t[k] # "\n"

\* Positions f of the closing ) for a ]-( found at e.
LinkCloses(t, e) ==
  {f \in (e + 2)..Len(t) : t[f] = ")" /\ NoNL(t, e + 2, f - 1)}

\* Positions e of a ]-( that completes a match opened by the [ at s.
LinkMids(t, s) ==
  {e \in (s + 1)..(Len(t) - 2) :
      /\ t[e] = "]"
      /\ t[e + 1] = "("
      /\ NoNL(t, s + 1, e - 1)
      /\ LinkCloses(t, e) # {}}

LinkStarts(t, from) ==
  {s \in (from + 1)..Len(t) : t[s] = "[" /\ LinkMids(t, s) # {}}

\* linkRegex.exec(t) with linkRegex.lastIndex = from. A failed match resets
\* lastIndex to 0; a match leaves it just after the match (both quantifiers
\* are lazy: the first ]-( after the [, the first ) after it).
LinkExec(t, from) ==
  IF LinkStarts(t, from) = {}
  THEN [found |-> FALSE, index |-> 0, label |-> << >>, url |-> << >>, lastIndex |-> 0]
  ELSE LET s == Min(LinkStarts(t, from))
           e == Min(LinkMids(t, s))
           f == Min(LinkCloses(t, e))
       IN  [found |-> TRUE, index |-> s - 1,
            label |-> SubSeq(t, s + 1, e - 1),
            url |-> SubSeq(t, e + 2, f - 1),
            lastIndex |-> f]

\* md.replace(linkRegex, '$1'): every match replaced by its label.
RECURSIVE ReplaceLinksByLabel(_, _)
ReplaceLinksByLabel(t, from) ==
  LET m == LinkExec(t, from)
  IN  IF ~m.found THEN Substring(t, from, Len(t))
      ELSE Substring(t, from, m.index) \o m.label \o ReplaceLinksByLabel(t, m.lastIndex)

\* cleanMarkdown
cleanMarkdown(md) ==
  ReplaceAll(
    ReplaceAll(
      ReplaceAll(
        ReplaceAll(
          ReplaceAll(ReplaceLinksByLabel(md, 0), BOLD, << >>),
          <<"*">>, << >>),
        <<"#">>, << >>),
      TICK, << >>),
    BR, NL)

\* Every exec of the scan loop  while ((match = linkRegex.exec(t)) !== null),
\* started with lastIndex = from: the matches in order, then the failed exec
\* that ends the loop (and leaves lastIndex = 0).
RECURSIVE LinkScan(_, _)
LinkScan(t, from) ==
  LET m == LinkExec(t, from)
  IN  IF ~m.found THEN <<m>> ELSE <<m>> \o LinkScan(t, m.lastIndex)

\* linkRegex.lastIndex if the scan loop stopped at its last match, without
\* the failed exec that ends it.
LastIndexAfterScan_AtLastMatch(t) ==
  LET ms == LinkScan(t, 0)
  IN  IF Len(ms) = 1 THEN 0 ELSE ms[Len(ms) - 1].lastIndex

\* linkRegex.lastIndex after a scan loop over t has run to its end.
LastIndexAfterScan(t) == LinkScan(t, 0)[Len(LinkScan(t, 0))].lastIndex

\* ------------------------------------------------------------------------
\* Word helper: parseMarkdownToDocxChildren
\* ------------------------------------------------------------------------

TextRun(s) == [t |-> "text", text |-> s, link |-> << >>]
\* A hyperlink whose target is taken from the label.
ExternalHyperlink_LabelAsLink(label, url) ==
  [t |-> "link", text |-> label, link |-> label]

ExternalHyperlink(label, url) == [t |-> "link", text |-> label, link |-> url]

\* The children with the text after the last link left out.
RECURSIVE DocxChildrenOf_DropsTail(_, _, _)
DocxChildrenOf_DropsTail(text, ms, lastIdx) ==
  LET m == Head(ms)
  IN  IF ~m.found THEN << >>
      ELSE (IF m.index > lastIdx
            THEN <<[t |-> "text", text |-> Substring(text, lastIdx, m.index), link |-> << >>]>>
            ELSE << >>)
           \o <<[t |-> "link", text |-> m.label, link |-> m.url]>>
           \o DocxChildrenOf_DropsTail(text, Tail(ms), m.lastIndex)

\* The children pushed for the matches ms of text, lastIdx being the end of
\* the previous match.
RECURSIVE DocxChildrenOf(_, _, _)
DocxChildrenOf(text, ms, lastIdx) ==
  LET m == Head(ms)
  IN  IF ~m.found
      THEN IF lastIdx < Len(text)
           THEN <<TextRun(Substring(text, lastIdx, Len(text)))>>
           ELSE << >>
      ELSE (IF m.index > lastIdx
            THEN <<TextRun(Substring(text, lastIdx, m.index))>>
            ELSE << >>)
           \o <<ExternalHyperlink(m.label, m.url)>>
           \o DocxChildrenOf(text, Tail(ms), m.lastIndex)

\* linkRegex.lastIndex is reset to 0 before the scan.
parseMarkdownToDocxChildren(text) == DocxChildrenOf(text, LinkScan(text, 0), 0)

\* ------------------------------------------------------------------------
\* PDF helper: parseCellForPDF, anchored whole-cell match
\* ------------------------------------------------------------------------

\* Positions e of a ]-( such that [ label ]( url ) spans the whole text.
WholeCellMids(text) ==
  {e \in 2..(Len(text) - 2) :
      /\ text[1] = "["
      /\ text[e] = "]"
      /\ text[e + 1] = "("
      /\ text[Len(text)] = ")"
      /\ NoNL(text, 2, e - 1)
      /\ NoNL(text, e + 2, Len(text) - 1)}

\* A cell is a string or a PDFCellObj {content, link}; isObj tells which.
parseCellForPDF(text) ==
  IF WholeCellMids(text) # {}
  THEN LET e == Min(WholeCellMids(text))
       IN  [isObj |-> TRUE,
            content |-> SubSeq(text, 2, e - 1),
            link |-> SubSeq(text, e + 2, Len(text) - 1)]
  ELSE [isObj |-> FALSE,
        content |-> ReplaceAll(ReplaceAll(text, BOLD, << >>), BR, NL),
        link |-> << >>]

\* ------------------------------------------------------------------------
\* Row splitting
\* ------------------------------------------------------------------------

\* trimmed.split('|').filter(c => c.trim() !== '')
RowStrings(trimmed) == FilterNonBlank(Split(trimmed, "|"))

\* exportToPDF, header row: .map(c => c.trim().replace(/\*\*/g, ''))
PdfHeaderCells(trimmed) ==
  [k \in 1..Len(RowStrings(trimmed)) |->
      ReplaceAll(Trim(RowStrings(trimmed)[k]), BOLD, << >>)]

\* exportToPDF, body row: .map(c => parseCellForPDF(c.trim()))
PdfBodyCells(trimmed) ==
  [k \in 1..Len(RowStrings(trimmed)) |-> parseCellForPDF(Trim(RowStrings(trimmed)[k]))]

\* exportToWord: .map(c => c.trim())
WordCellTexts(line) ==
  [k \in 1..Len(RowStrings(line)) |-> Trim(RowStrings(line)[k])]

\* ------------------------------------------------------------------------
\* State
\* ------------------------------------------------------------------------

VARIABLES
  content,    \* the Markdown string handed to the export calls
  lastIndex,  \* linkRegex.lastIndex, the one piece of module-level state
  pdf,        \* the exportToPDF call: its locals and the calls made on doc
  word,       \* the exportToWord call: its locals and the children list
  hist,       \* history: the finished calls, the number of calls, whether calls overlapped
  app         \* the App component: its state hooks, the requests in flight, their history

vars == <<content, lastIndex, pdf, word, hist, app>>

\* ------------------------------------------------------------------------
\* exportToPDF
\* ------------------------------------------------------------------------

margin == 14
StartY == 35
BreakY == 270
TopY == 20
H1Step == 10
H2Step == 8
LinkLineStep == 6
WrapLineStep == 5
WrapGap == 2

\* The gap left under a table.
AfterTableGap == 10

\* The grid-table renderer (autoTable) and the page it draws on: the height
\* of a row at fontSize 9 with cellPadding 3, the A4 page of new jsPDF(), and
\* the renderer's top and bottom margin.
RowHeight == 10
PageHeight == 297
TableMargin == 14

\* doc.getTextWidth(s): one unit per character.
getTextWidth(s) == Len(s)

\* doc.text(textLines, x, y) draws the first line at y and each further
\* line one line height lower: font size 10 pt times the line height
\* factor 1.15 of jsPDF, 4.06 mm, taken here as whole millimetres rounded
\* down, so that a line found below the page end is below it on paper too.
LinePitch == 4

\* doc.splitTextToSize(clean, maxLineWidth).length: the text is cut at its
\* line breaks, and every piece wraps to the printable width.
WrappedLineCount(seg) ==
  IF Len(seg) = 0 THEN 1 ELSE (Len(seg) + CharsPerLine - 1) \div CharsPerLine

RECURSIVE SumWrapped(_)
SumWrapped(segs) ==
  IF segs = << >> THEN 0 ELSE WrappedLineCount(Head(segs)) + SumWrapped(Tail(segs))

splitTextToSizeLength(clean) == SumWrapped(Split(clean, "\n"))

\* autoTable draws the head row and the body rows from startY down; a row
\* that does not fit above the bottom margin moves, whole, to a new page.
RECURSIVE AutoTableRows(_, _, _)
AutoTableRows(n, y, page) ==
  IF n = 0 THEN [finalY |-> y, page |-> page]
  ELSE IF y + RowHeight > PageHeight - TableMargin
       THEN AutoTableRows(n - 1, TableMargin + RowHeight, page + 1)
       ELSE AutoTableRows(n - 1, y + RowHeight, page)

\* didDrawCell: the cells that get a doc.link, in drawing order. The head
\* cells are strings; a body cell gets one when it is an object with a
\* non-empty link.
RECURSIVE RowLinks(_)
RowLinks(row) ==
  IF row = << >> THEN << >>
  ELSE (IF Head(row).isObj /\ Head(row).link # << >>
        THEN <<Head(row).link>> ELSE << >>) \o RowLinks(Tail(row))

RECURSIVE BodyLinks(_)
BodyLinks(body) ==
  IF body = << >> THEN << >> ELSE RowLinks(Head(body)) \o BodyLinks(Tail(body))

\* flushTable without the test for a captured header.
PdfFlushTable_AlwaysDraws(p) ==
  LET drawn == AutoTableRows(1 + Len(p.tableBody), p.y, p.page)
  IN  [p EXCEPT
         !.ops = Append(@, [op |-> "table",
                            head |-> p.tableHeader,
                            body |-> p.tableBody,
                            links |-> BodyLinks(p.tableBody),
                            headSrc |-> p.headerSrc,
                            bodySrc |-> p.bodySrc,
                            y |-> p.y,
                            page |-> p.page]),
         !.y = drawn.finalY + AfterTableGap,
         !.page = drawn.page,
         !.tableHeader = << >>,
         !.headerSrc = 0,
         !.tableBody = << >>,
         !.bodySrc = << >>,
         !.inTable = FALSE]

\* flushTable of exportToPDF. headerSrc and bodySrc are history fields: the
\* numbers of the input lines the buffered header and rows were read from.
PdfFlushTable(p) ==
  IF Len(p.tableHeader) > 0
  THEN LET drawn == AutoTableRows(1 + Len(p.tableBody), p.y, p.page)
       IN  [p EXCEPT
              !.ops = Append(@, [op |-> "table",
                                 head |-> p.tableHeader,
                                 body |-> p.tableBody,
                                 links |-> BodyLinks(p.tableBody),
                                 headSrc |-> p.headerSrc,
                                 bodySrc |-> p.bodySrc,
                                 y |-> p.y,
                                 page |-> p.page]),
              !.y = drawn.finalY + AfterTableGap,
              !.page = drawn.page,
              !.tableHeader = << >>,
              !.headerSrc = 0,
              !.tableBody = << >>,
              !.bodySrc = << >>,
              !.inTable = FALSE]
  ELSE [p EXCEPT !.inTable = FALSE]

\* if (y > 270) { doc.addPage(); y = 20; }
PdfPageCheck(p) ==
  IF p.y > BreakY
  THEN [p EXCEPT !.ops = Append(@, [op |-> "addPage"]),
                 !.page = @ + 1,
                 !.y = TopY]
  ELSE p

\* The table branch of the line loop.
PdfTableLine(p, trimmed) ==
  IF ~p.inTable
  THEN [p EXCEPT !.inTable = TRUE,
                 !.tableHeader = PdfHeaderCells(trimmed),
                 !.headerSrc = p.i]
  ELSE IF ~Includes(trimmed, DASHES)
       THEN [p EXCEPT !.tableBody = Append(@, PdfBodyCells(trimmed)),
                      !.bodySrc = Append(@, p.i)]
       ELSE p

\* The doc.text / doc.textWithLink calls of a line that holds a link, for the
\* matches ms, lastIdx being the end of the previous match.
RECURSIVE LinkLineDraws(_, _, _, _)
LinkLineDraws(trimmed, ms, lastIdx, cursorX) ==
  LET m == Head(ms)
      preText == Substring(trimmed, lastIdx, m.index)
      x1 == IF preText # << >> THEN cursorX + getTextWidth(preText) ELSE cursorX
  IN  IF ~m.found
      THEN IF lastIdx < Len(trimmed)
           THEN <<[call |-> "text", text |-> Substring(trimmed, lastIdx, Len(trimmed)),
                   url |-> << >>, x |-> cursorX]>>
           ELSE << >>
      ELSE (IF preText # << >>
            THEN <<[call |-> "text", text |-> preText, url |-> << >>, x |-> cursorX]>>
            ELSE << >>)
           \o <<[call |-> "textWithLink", text |-> m.label, url |-> m.url, x |-> x1]>>
           \o LinkLineDraws(trimmed, Tail(ms), m.lastIndex, x1 + getTextWidth(m.label))

\* The text handling without the test for an empty line.
PdfTextLine_DrawsBlank(p, trimmed) ==
  IF StartsWith(trimmed, H1)
  THEN [p EXCEPT !.ops = Append(@, [op |-> "heading", level |-> 1,
                                    text |-> ReplaceFirst(trimmed, H1, << >>),
                                    y |-> p.y, page |-> p.page, src |-> p.i]),
                 !.y = @ + H1Step]
  ELSE IF StartsWith(trimmed, H2)
  THEN [p EXCEPT !.ops = Append(@, [op |-> "heading", level |-> 2,
                                    text |-> ReplaceFirst(trimmed, H2, << >>),
                                    y |-> p.y, page |-> p.page, src |-> p.i]),
                 !.y = @ + H2Step]
  ELSE IF LinkExec(trimmed, 0).found
       THEN [p EXCEPT !.ops = Append(@, [op |-> "linkLine",
                                         draws |-> LinkLineDraws(trimmed,
                                                     LinkScan(trimmed, 0), 0, margin),
                                         y |-> p.y, page |-> p.page, src |-> p.i]),
                      !.y = @ + LinkLineStep]
       ELSE LET clean == cleanMarkdown(trimmed)
                n == splitTextToSizeLength(clean)
            IN  [p EXCEPT !.ops = Append(@, [op |-> "wrapped",
                                             text |-> clean, lines |-> n,
                                             y |-> p.y, page |-> p.page, src |-> p.i]),
                          !.y = @ + (n * WrapLineStep) + WrapGap]

\* Standard text handling of the line loop. src is a history field: the
\* number of the input line the block was drawn for.
PdfTextLine(p, trimmed) ==
  IF StartsWith(trimmed, H1)
  THEN [p EXCEPT !.ops = Append(@, [op |-> "heading", level |-> 1,
                                    text |-> ReplaceFirst(trimmed, H1, << >>),
                                    y |-> p.y, page |-> p.page, src |-> p.i]),
                 !.y = @ + H1Step]
  ELSE IF StartsWith(trimmed, H2)
  THEN [p EXCEPT !.ops = Append(@, [op |-> "heading", level |-> 2,
                                    text |-> ReplaceFirst(trimmed, H2, << >>),
                                    y |-> p.y, page |-> p.page, src |-> p.i]),
                 !.y = @ + H2Step]
  ELSE IF Len(trimmed) > 0
  THEN IF LinkExec(trimmed, 0).found
       THEN [p EXCEPT !.ops = Append(@, [op |-> "linkLine",
                                         draws |-> LinkLineDraws(trimmed,
                                                     LinkScan(trimmed, 0), 0, margin),
                                         y |-> p.y, page |-> p.page, src |-> p.i]),
                      !.y = @ + LinkLineStep]
       ELSE LET clean == cleanMarkdown(trimmed)
                n == splitTextToSizeLength(clean)
            IN  [p EXCEPT !.ops = Append(@, [op |-> "wrapped",
                                             text |-> clean, lines |-> n,
                                             y |-> p.y, page |-> p.page, src |-> p.i]),
                          !.y = @ + (n * WrapLineStep) + WrapGap]
  ELSE p

\* The iteration with the pending table flushed after the text of the line is
\* drawn instead of before it.
PdfLineBody_FlushAfterText(p) ==
  LET trimmed == Trim(p.lines[p.i])
      checked == PdfPageCheck(p)
      drawn == PdfTextLine(checked, trimmed)
  IN  IF StartsWith(trimmed, PIPE)
      THEN PdfTableLine(checked, trimmed)
      ELSE IF drawn.inTable THEN PdfFlushTable(drawn) ELSE drawn

\* The iteration taking every line that holds a pipe for a table line.
PdfLineBody_PipeAnywhere(p) ==
  LET trimmed == Trim(p.lines[p.i])
      checked == PdfPageCheck(p)
  IN  IF Includes(trimmed, PIPE)
      THEN PdfTableLine(checked, trimmed)
      ELSE PdfTextLine(IF checked.inTable THEN PdfFlushTable(checked) ELSE checked,
                       trimmed)

\* One iteration of lines.forEach.
PdfLineBody(p) ==
  LET trimmed == Trim(p.lines[p.i])
      checked == PdfPageCheck(p)
  IN  IF StartsWith(trimmed, PIPE)
      THEN PdfTableLine(checked, trimmed)
      ELSE PdfTextLine(IF checked.inTable THEN PdfFlushTable(checked) ELSE checked,
                       trimmed)

\* The value the iteration leaves in linkRegex.lastIndex: a line that reaches
\* the paragraph branch ends its last use of linkRegex on a failed match.
PdfLineLastIndex(p, li) ==
  LET trimmed == Trim(p.lines[p.i])
  IN  IF \/ StartsWith(trimmed, PIPE)
         \/ StartsWith(trimmed, H1)
         \/ StartsWith(trimmed, H2)
         \/ Len(trimmed) = 0
      THEN li
      ELSE LastIndexAfterScan(trimmed)

PdfIdle ==
  [pc |-> "idle", lines |-> << >>, i |-> 0, y |-> 0, page |-> 0, inTable |-> FALSE,
   tableHeader |-> << >>, headerSrc |-> 0, tableBody |-> << >>, bodySrc |-> << >>,
   ops |-> << >>]

\* exportToPDF up to the line loop: the document, the title and the rule.
PdfStart ==
  /\ pdf.pc = "idle"
  /\ word.pc # "run"
  /\ pdf' = [PdfIdle EXCEPT !.pc = "run",
                            !.lines = Split(content, "\n"),
                            !.i = 1,
                            !.y = StartY,
                            !.page = 1,
                            !.ops = <<[op |-> "title"]>>]
  /\ hist' = [hist EXCEPT !.overlapped = @ \/ word.pc = "packing"]
  /\ UNCHANGED <<content, lastIndex, word, app>>

PdfLine ==
  /\ pdf.pc = "run"
  /\ pdf.i <= Len(pdf.lines)
  /\ pdf' = [PdfLineBody(pdf) EXCEPT !.i = pdf.i + 1]
  /\ lastIndex' = PdfLineLastIndex(pdf, lastIndex)
  /\ UNCHANGED <<content, word, hist, app>>

\* The end of the call saving without the final flush.
PdfSaveBody_NoFlush(p) ==
  [p EXCEPT !.ops = Append(@, [op |-> "save"]), !.pc = "done"]

\* After the loop: if (inTable) flushTable(); doc.save(...).
PdfSaveBody(p) ==
  LET flushed == IF p.inTable THEN PdfFlushTable(p) ELSE p
  IN  [flushed EXCEPT !.ops = Append(@, [op |-> "save"]), !.pc = "done"]

PdfSave ==
  /\ pdf.pc = "run"
  /\ pdf.i > Len(pdf.lines)
  /\ pdf' = PdfSaveBody(pdf)
  /\ UNCHANGED <<content, lastIndex, word, hist, app>>

\* ------------------------------------------------------------------------
\* exportToWord
\* ------------------------------------------------------------------------

\* The percentage the cells of a row share (size: 100 / cells.length is
\* kept as the fraction WidthTotal over the number of cells).
WidthTotal == 100

\* One TableCell of a row of n cells; first tells whether tableRows is still
\* empty when the row is built (the shaded fill).
WordCell(text, n, first) ==
  [children |-> parseMarkdownToDocxChildren(
                  ReplaceAll(ReplaceAll(text, BOLD, << >>), BR, NL)),
   width |-> [num |-> WidthTotal, den |-> n],
   fill |-> IF first THEN "F1F5F9" ELSE "FFFFFF"]

WordRowCells(line, first) ==
  [k \in 1..Len(WordCellTexts(line)) |->
      WordCell(WordCellTexts(line)[k], Len(WordCellTexts(line)), first)]

\* flushTable pushing the table without the empty paragraph after it.
WordFlushTable_NoBlank(w) ==
  IF Len(w.tableRows) > 0
  THEN [w EXCEPT !.children = @ \o <<[node |-> "table", rows |-> w.tableRows,
                                      rowSrc |-> w.rowSrc]>>,
                 !.inTable = FALSE,
                 !.tableRows = << >>,
                 !.rowSrc = << >>]
  ELSE [w EXCEPT !.inTable = FALSE, !.tableRows = << >>, !.rowSrc = << >>]

\* flushTable of exportToWord. rowSrc is a history field: the numbers of the
\* input lines the buffered rows were read from.
WordFlushTable(w) ==
  IF Len(w.tableRows) > 0
  THEN [w EXCEPT !.children = @ \o <<[node |-> "table", rows |-> w.tableRows,
                                      rowSrc |-> w.rowSrc],
                                     [node |-> "blank"]>>,
                 !.inTable = FALSE,
                 !.tableRows = << >>,
                 !.rowSrc = << >>]
  ELSE [w EXCEPT !.inTable = FALSE, !.tableRows = << >>, !.rowSrc = << >>]

WordHeading(w, line, prefix, level) ==
  LET flushed == IF w.inTable THEN WordFlushTable(w) ELSE w
  IN  [flushed EXCEPT
         !.children = Append(@, [node |-> "heading", level |-> level,
                                 children |-> parseMarkdownToDocxChildren(
                                               ReplaceFirst(line, prefix, << >>)),
                                 src |-> w.i])]

\* The table branch shading the header row of the first table only.
WordTableLine_ShadesFirstTableOnly(w, line) ==
  LET opened == IF ~w.inTable
                THEN [w EXCEPT !.inTable = TRUE, !.tableRows = << >>, !.rowSrc = << >>]
                ELSE w
      first == /\ Len(opened.tableRows) = 0
               /\ \A n \in 1..Len(w.children) : w.children[n].node # "table"
  IN  IF Includes(line, DASHES)
      THEN opened
      ELSE [opened EXCEPT
              !.tableRows = Append(@, WordRowCells(line, first)),
              !.rowSrc = Append(@, w.i)]

WordTableLine(w, line) ==
  LET opened == IF ~w.inTable
                THEN [w EXCEPT !.inTable = TRUE, !.tableRows = << >>, !.rowSrc = << >>]
                ELSE w
  IN  IF Includes(line, DASHES)
      THEN opened
      ELSE [opened EXCEPT
              !.tableRows = Append(@, WordRowCells(line, Len(opened.tableRows) = 0)),
              !.rowSrc = Append(@, w.i)]

WordTextLine(w, line) ==
  LET flushed == IF w.inTable THEN WordFlushTable(w) ELSE w
  IN  IF Len(line) > 0
      THEN [flushed EXCEPT
              !.children = Append(@, [node |-> "para",
                                      children |-> parseMarkdownToDocxChildren(line),
                                      src |-> w.i])]
      ELSE flushed

\* One iteration of the for loop over lines.
WordLineBody(w) ==
  LET line == Trim(w.lines[w.i])
  IN  IF StartsWith(line, H3) THEN WordHeading(w, line, H3, 3)
      ELSE IF StartsWith(line, H2) THEN WordHeading(w, line, H2, 2)
      ELSE IF StartsWith(line, H1) THEN WordHeading(w, line, H1, 1)
      ELSE IF StartsWith(line, PIPE) THEN WordTableLine(w, line)
      ELSE WordTextLine(w, line)

\* The value the iteration leaves in linkRegex.lastIndex: every call of
\* parseMarkdownToDocxChildren ends on a failed match.
WordLineLastIndex(w, li) ==
  LET line == Trim(w.lines[w.i])
      isHeading == StartsWith(line, H3) \/ StartsWith(line, H2) \/ StartsWith(line, H1)
      parses == IF isHeading THEN TRUE
                ELSE IF StartsWith(line, PIPE)
                     THEN ~Includes(line, DASHES) /\ Len(WordCellTexts(line)) > 0
                     ELSE Len(line) > 0
  IN  IF parses THEN LastIndexAfterScan(line) ELSE li

WordIdle ==
  [pc |-> "idle", lines |-> << >>, i |-> 0, inTable |-> FALSE,
   tableRows |-> << >>, rowSrc |-> << >>, children |-> << >>, saved |-> FALSE]

\* exportToWord up to the line loop: the title paragraph.
WordStart ==
  /\ word.pc = "idle"
  /\ pdf.pc # "run"
  /\ word' = [WordIdle EXCEPT !.pc = "run",
                              !.lines = Split(content, "\n"),
                              !.i = 1,
                              !.children = <<[node |-> "title"]>>]
  /\ UNCHANGED <<content, lastIndex, pdf, hist, app>>

WordLine ==
  /\ word.pc = "run"
  /\ word.i <= Len(word.lines)
  /\ word' = [WordLineBody(word) EXCEPT !.i = word.i + 1]
  /\ lastIndex' = WordLineLastIndex(word, lastIndex)
  /\ UNCHANGED <<content, pdf, hist, app>>

\* After the loop: if (inTable) flushTable(); new Document(...); the call
\* then waits on Packer.toBlob(doc).
WordPackBody(w) ==
  [(IF w.inTable THEN WordFlushTable(w) ELSE w) EXCEPT !.pc = "packing"]

WordPack ==
  /\ word.pc = "run"
  /\ word.i > Len(word.lines)
  /\ word' = WordPackBody(word)
  /\ UNCHANGED <<content, lastIndex, pdf, hist, app>>

\* The await resumes: saveAs(blob, ...).
WordSave ==
  /\ word.pc = "packing"
  /\ pdf.pc # "run"
  /\ word' = [word EXCEPT !.pc = "done", !.saved = TRUE]
  /\ UNCHANGED <<content, lastIndex, pdf, hist, app>>

\* ------------------------------------------------------------------------
\* Inputs
\* ------------------------------------------------------------------------
\* a level-1 heading:  # T
LineH1 == <<"#", " ", "T">>
\* a level-2 heading holding a link:  ## [A](u)
LineH2Link == <<"#", "#", " ", "[", "A", "]", "(", "u", ")">>
\* a level-3 heading:  ### T
LineH3 == <<"#", "#", "#", " ", "T">>
\* a level-4 heading:  #### T
LineH4 == <<"#", "#", "#", "#", " ", "T">>
\* a plain paragraph:  Hi
LinePara == <<"H", "i">>
\* a paragraph holding a link:  x [B](u)
LineLinkPara == <<"x", " ", "[", "B", "]", "(", "u", ")">>
\* a blank line:  
LineBlank == << >>
\* a table row of two fields:  | A | B |
LineHeader == <<"|", " ", "A", " ", "|", " ", "B", " ", "|">>
\* a separator row:  |---|
LineSep == <<"|", "-", "-", "-", "|">>
\* a table row of one field:  | 1 |
LineRow1 == <<"|", " ", "1", " ", "|">>
\* a table row whose middle field is empty:  | a | | b |
LineRowGap == <<"|", " ", "a", " ", "|", " ", "|", " ", "b", " ", "|">>
\* a table row whose field is one link:  | [A](u) |
LineRowLink == <<"|", " ", "[", "A", "]", "(", "u", ")", " ", "|">>
\* a table row whose field is two links:  | [a](u)[b](v) |
LineRow2Links == <<"|", " ", "[", "a", "]", "(", "u", ")", "[", "b", "]", "(", "v", ")", " ", "|">>
\* a table row whose field is text and a link:  | x [a](u) |
LineRowMixed == <<"|", " ", "x", " ", "[", "a", "]", "(", "u", ")", " ", "|">>
\* a pipe alone: a table row of no field:  |
LineBar == <<"|">>
\* a paragraph in bold markers:  **b**
LineBold == <<"*", "*", "b", "*", "*">>
\* a paragraph of bold text and a link:  **b** [a](u)
LineBoldLink == <<"*", "*", "b", "*", "*", " ", "[", "a", "]", "(", "u", ")">>
\* a paragraph in code markers (backticks):  ^c^
LineTick == <<"^", "c", "^">>
\* a paragraph of two links:  [a](u) [b](v)
LineTwoLinks == <<"[", "a", "]", "(", "u", ")", " ", "[", "b", "]", "(", "v", ")">>
\* a table row whose field is bold markers around nothing:  | ** |
LineBoldCell == <<"|", " ", "*", "*", " ", "|">>
\* a paragraph with a pipe inside:  a|b
LinePipeInside == <<"a", "|", "b">>
\* a line of spaces:    
LineSpaces == <<" ", " ">>
\* a paragraph long enough to fill most of a page
LineLong == [k \in 1..LongLen |-> "a"]

\* Tables among headings and paragraphs.
PoolBlocks == {LineHeader, LineSep, LineRow1, LineBar, LineH1, LinePara, LineBlank,
               LinePipeInside}

\* The shapes of a table row.
PoolCells == {LineHeader, LineSep, LineRow1, LineRowGap, LineRowLink, LineRow2Links,
              LineRowMixed, LinePara}

\* The heading levels, with and without links.
PoolHeadings == {LineH1, LineH2Link, LineH3, LineH4, LinePara, LineLinkPara, LineBlank,
                 LineRow1}

\* Enough text to reach the bottom of a page.
PoolPages == {LineLong, LinePara, LineH1, LineBlank, LineSpaces, LineHeader, LineRow1}

\* Text with links and with inline markers.
PoolRuns == {LineBold, LineBoldLink, LineTick, LineTwoLinks, LineBoldCell, LineH2Link,
             LineRowMixed}

\* The characters of the text spans tried on the link extraction.
SpanChars == {"[", "]", "(", ")", "a"}

\* Every one-line text of one to MaxSpan of these characters.
Spans == UNION {[1..n -> SpanChars] : n \in 1..MaxSpan}

\* The state of the App component before anything is chosen. error, result
\* and selectedType hold << >> for null or a one-element tuple. reqs holds
\* the submissions whose handler waits on an await. submits and last are
\* history fields: per submission its kind and the number of analyzeContent
\* calls made for it, and the last analyzeContent call that settled.
AppIdle ==
  [status |-> "idle", error |-> << >>, result |-> << >>, selectedType |-> << >>,
   urlInput |-> "", reqs |-> {}, submits |-> << >>, last |-> << >>]

\* No call has finished or overlapped yet.
NoHistory ==
  [pdfCalls |-> {}, wordCalls |-> {}, calls |-> 0, overlapped |-> FALSE]

\* The Markdown strings of one to MaxLines lines drawn from pool.
Documents(pool) ==
  {Join(d, "\n") : d \in UNION {[1..n -> pool] : n \in 1..MaxLines}}

InitOver(pool) ==
  /\ content \in Documents(pool)
  /\ lastIndex = 0
  /\ pdf = PdfIdle
  /\ word = WordIdle
  /\ hist = NoHistory
  /\ app = AppIdle

Init == InitOver(PoolBlocks)
InitCells == InitOver(PoolCells)
InitHeadings == InitOver(PoolHeadings)
InitPages == InitOver(PoolPages)
InitRuns ==
  /\ content \in Spans \cup Documents(PoolRuns)
  /\ lastIndex = 0
  /\ pdf = PdfIdle
  /\ word = WordIdle
  /\ hist = NoHistory
  /\ app = AppIdle

Next ==
  \/ PdfStart
  \/ PdfLine
  \/ PdfSave
  \/ WordStart
  \/ WordLine
  \/ WordPack
  \/ WordSave

Spec == Init /\ [][Next]_vars
SpecCells == InitCells /\ [][Next]_vars
SpecHeadings == InitHeadings /\ [][Next]_vars
SpecPages == InitPages /\ [][Next]_vars
SpecRuns == InitRuns /\ [][Next]_vars

\* ------------------------------------------------------------------------
\* Calling an export again
\* ------------------------------------------------------------------------

\* The strings the result view holds over time: one that fills a page, one
\* with a table and links.
RepeatContents ==
  {Join(<<LineLong, LinePara, LineLinkPara>>, "\n"),
   Join(<<LineHeader, LineRowLink, LineTwoLinks>>, "\n")}

\* The export button is pressed again after the previous exportToPDF call
\* has returned, with the string the view then holds; a fresh call with
\* locals of its own. The finished call goes into the history.
PdfAgain_KeepsCursor ==
  /\ pdf.pc = "done"
  /\ word.pc # "run"
  /\ hist.calls < MaxCalls
  /\ \E c \in RepeatContents :
        /\ content' = c
        /\ pdf' = [PdfIdle EXCEPT !.pc = "run",
                                  !.lines = Split(c, "\n"),
                                  !.i = 1,
                                  !.y = pdf.y,
                                  !.page = pdf.page,
                                  !.ops = <<[op |-> "title"]>>]
  /\ hist' = [hist EXCEPT !.pdfCalls = @ \cup {[lines |-> pdf.lines, ops |-> pdf.ops]},
                          !.calls = @ + 1,
                          !.overlapped = @ \/ word.pc = "packing"]
  /\ UNCHANGED <<lastIndex, word, app>>

PdfAgain ==
  /\ pdf.pc = "done"
  /\ word.pc # "run"
  /\ hist.calls < MaxCalls
  /\ \E c \in RepeatContents :
        /\ content' = c
        /\ pdf' = [PdfIdle EXCEPT !.pc = "run",
                                  !.lines = Split(c, "\n"),
                                  !.i = 1,
                                  !.y = StartY,
                                  !.page = 1,
                                  !.ops = <<[op |-> "title"]>>]
  /\ hist' = [hist EXCEPT !.pdfCalls = @ \cup {[lines |-> pdf.lines, ops |-> pdf.ops]},
                          !.calls = @ + 1,
                          !.overlapped = @ \/ word.pc = "packing"]
  /\ UNCHANGED <<lastIndex, word, app>>

\* The same for exportToWord, after the previous call has saved its file.
WordAgain ==
  /\ word.pc = "done"
  /\ pdf.pc # "run"
  /\ hist.calls < MaxCalls
  /\ \E c \in RepeatContents :
        /\ content' = c
        /\ word' = [WordIdle EXCEPT !.pc = "run",
                                    !.lines = Split(c, "\n"),
                                    !.i = 1,
                                    !.children = <<[node |-> "title"]>>]
  /\ hist' = [hist EXCEPT !.wordCalls = @ \cup {[lines |-> word.lines,
                                                 children |-> word.children]},
                          !.calls = @ + 1]
  /\ UNCHANGED <<lastIndex, pdf, app>>

InitRepeat ==
  /\ content \in RepeatContents
  /\ lastIndex = 0
  /\ pdf = PdfIdle
  /\ word = WordIdle
  /\ hist = NoHistory
  /\ app = AppIdle

NextRepeat ==
  \/ PdfStart
  \/ PdfLine
  \/ PdfSave
  \/ WordStart
  \/ WordLine
  \/ WordPack
  \/ WordSave
  \/ PdfAgain
  \/ WordAgain

SpecRepeat == InitRepeat /\ [][NextRepeat]_vars

\* ------------------------------------------------------------------------
\* A step of a call failing
\* ------------------------------------------------------------------------

\* The values an exception can leave in linkRegex.lastIndex when it is thrown
\* while the line is handled: the value before the line, or the position
\* after one of the links of a text the line scans with exec.
LastIndexAtThrow(scanned, li) ==
  {li} \cup {LinkScan(scanned, 0)[k].lastIndex : k \in 1..Len(LinkScan(scanned, 0))}

\* Neither export has a try block: an exception of a drawing call leaves
\* exportToPDF at once, before doc.save is reached.
PdfThrow ==
  /\ pdf.pc = "run"
  /\ pdf' = [pdf EXCEPT !.pc = "failed"]
  /\ lastIndex' \in IF pdf.i <= Len(pdf.lines)
                    THEN LastIndexAtThrow(Trim(pdf.lines[pdf.i]), lastIndex)
                    ELSE {lastIndex}
  /\ UNCHANGED <<content, word, hist, app>>

\* An exception in the synchronous part of exportToWord rejects the promise
\* the call returns.
WordThrow ==
  /\ word.pc = "run"
  /\ word' = [word EXCEPT !.pc = "failed"]
  /\ lastIndex' \in IF word.i <= Len(word.lines)
                    THEN LastIndexAtThrow(Trim(word.lines[word.i]), lastIndex)
                    ELSE {lastIndex}
  /\ UNCHANGED <<content, pdf, hist, app>>

\* Packer.toBlob rejects: the await throws and saveAs is not reached.
WordReject ==
  /\ word.pc = "packing"
  /\ pdf.pc # "run"
  /\ word' = [word EXCEPT !.pc = "failed"]
  /\ UNCHANGED <<content, lastIndex, pdf, hist, app>>

\* Text, links and tables for the calls that fail on the way.
PoolFail == {LineHeader, LineRow1, LineLinkPara, LineH1, LineBlank}

InitFail == InitOver(PoolFail)

NextFail ==
  \/ PdfStart
  \/ PdfLine
  \/ PdfSave
  \/ PdfThrow
  \/ WordStart
  \/ WordLine
  \/ WordPack
  \/ WordSave
  \/ WordThrow
  \/ WordReject

SpecFail == InitFail /\ [][NextFail]_vars

\* ------------------------------------------------------------------------
\* The App component and analyzeContent
\* ------------------------------------------------------------------------

MAX_FILE_SIZE_MB == 20
BytesPerMB == 1024 * 1024

\* The sizes of the files a user chooses: at the limit and just over it.
FileSizes == {MAX_FILE_SIZE_MB * BytesPerMB, (MAX_FILE_SIZE_MB * BytesPerMB) + 1}

\* The message of an error thrown by a browser or library call; "" stands
\* for an error without a message.
ThrownMessages == {"", "quota exceeded"}

\* a || b on messages.
OrElse(a, b) == IF a = "" THEN b ELSE a

\* The ways scrapeUrl can end: the proxies give no page, the page is blocked
\* or too short, the parsing throws (all three return null), the extraction
\* gives the empty string, or it gives text.
ScrapeFailures == {"proxyError", "blocked", "parseException"}
ScrapeOutcomes == ScrapeFailures \cup {"empty", "text"}

scrapeUrl(outcome) ==
  CASE outcome \in ScrapeFailures -> [isNull |-> TRUE, text |-> ""]
    [] outcome = "empty" -> [isNull |-> FALSE, text |-> ""]
    [] OTHER -> [isNull |-> FALSE, text |-> "page text"]

\* No scrape was made (a file), or none has ended yet.
NotScraped == [isNull |-> TRUE, text |-> "-"]

\* The caught error's own message, whatever it is.
analyzeContentError_Bare(m) == m

\* The message of the Error analyzeContent throws for a caught error.
analyzeContentError(m) == OrElse(m, "Failed to analyze content")

\* if (scrapedContent): neither null nor the empty string.
Truthy(scraped) == ~scraped.isNull /\ scraped.text # ""

\* The code fence markers the answer is cleaned of (lower case only).
FENCE == TICK \o TICK \o TICK
FENCE_MARKDOWN == FENCE \o <<"m", "a", "r", "k", "d", "o", "w", "n">>
NoContentExtracted ==
  <<"N", "o", " ", "c", "o", "n", "t", "e", "n", "t", " ",
    "e", "x", "t", "r", "a", "c", "t", "e", "d", ".">>

\* response.text of the answers tried: none, a heading, a fenced table.
ResponseTexts ==
  {<< >>,
   LineH1,
   FENCE_MARKDOWN \o <<"\n">> \o LineHeader \o <<"\n">> \o LineRow1 \o <<"\n">> \o FENCE}

\* The Markdown of the ExtractedData built from response.text; req is a
\* history field, the submission the data was returned to.
ExtractedData(text, req) ==
  [markdown |-> Trim(ReplaceAll(ReplaceAll(
                  IF text = << >> THEN NoContentExtracted ELSE text,
                  FENCE_MARKDOWN, << >>), FENCE, << >>)),
   req |-> req]

\* No export call is in its synchronous part: an event handler can run.
Quiet == pdf.pc # "run" /\ word.pc # "run"

\* What the App renders.
ShowsInput == app.status = "idle" /\ app.result = << >>
ShowsProcessing == app.status \in {"uploading", "analyzing"}
ShowsResult == app.status = "complete" /\ app.result # << >>
ShowsError == app.status = "error"

handleInputSelect ==
  /\ Quiet
  /\ ShowsInput
  /\ \E type \in {"PDF", "WEBSITE"} :
        app' = [app EXCEPT !.selectedType = <<type>>, !.error = << >>,
                           !.result = << >>, !.urlInput = ""]
  /\ UNCHANGED <<content, lastIndex, pdf, word, hist>>

\* onChange of the URL field.
TypeUrl ==
  /\ Quiet
  /\ ShowsInput
  /\ app.selectedType = <<"WEBSITE">>
  /\ app.urlInput = ""
  /\ app' = [app EXCEPT !.urlInput = "https://x"]
  /\ UNCHANGED <<content, lastIndex, pdf, word, hist>>

\* handleUrlSubmit up to its await: analyzeContent is called and runs up to
\* the await in scrapeUrl. With an empty urlInput the handler returns.
handleUrlSubmit ==
  /\ Quiet
  /\ ShowsInput
  /\ app.selectedType = <<"WEBSITE">>
  /\ app.urlInput # ""
  /\ Len(app.submits) < MaxSubmits
  /\ app' = [app EXCEPT !.status = "analyzing",
                        !.submits = Append(@, [kind |-> "url", analyses |-> 1]),
                        !.reqs = @ \cup {[id |-> Len(app.submits) + 1, kind |-> "url",
                                          stage |-> "scraping", scraped |-> NotScraped,
                                          tools |-> FALSE]}]
  /\ UNCHANGED <<content, lastIndex, pdf, word, hist>>

\* handleFileUpload up to its await: a file over the limit sets the error
\* and returns, another one is read.
handleFileUpload ==
  /\ Quiet
  /\ ShowsInput
  /\ app.selectedType \notin {<< >>, <<"WEBSITE">>}
  /\ Len(app.submits) < MaxSubmits
  /\ \E size \in FileSizes :
        IF size > MAX_FILE_SIZE_MB * BytesPerMB
        THEN app' = [app EXCEPT !.error = <<"File size exceeds 20MB limit.">>,
                                !.submits = Append(@, [kind |-> "file", analyses |-> 0])]
        ELSE app' = [app EXCEPT !.status = "uploading",
                                !.submits = Append(@, [kind |-> "file", analyses |-> 0]),
                                !.reqs = @ \cup {[id |-> Len(app.submits) + 1, kind |-> "file",
                                                  stage |-> "reading", scraped |-> NotScraped,
                                                  tools |-> FALSE]}]
  /\ UNCHANGED <<content, lastIndex, pdf, word, hist>>

\* fileToBase64 resolves: setStatus('analyzing'), and analyzeContent runs up
\* to the await of generateContent.
FileRead ==
  /\ Quiet
  /\ \E r \in app.reqs :
        /\ r.stage = "reading"
        /\ app' = [app EXCEPT !.status = "analyzing",
                              !.submits[r.id].analyses = @ + 1,
                              !.reqs = (@ \ {r}) \cup {[r EXCEPT !.stage = "requesting"]}]
  /\ UNCHANGED <<content, lastIndex, pdf, word, hist>>

\* fileToBase64 rejects: the catch block of handleFileUpload.
FileReadFails ==
  /\ Quiet
  /\ \E r \in app.reqs, m \in ThrownMessages :
        /\ r.stage = "reading"
        /\ app' = [app EXCEPT !.error = <<OrElse(m, "Failed to process file")>>,
                              !.status = "error",
                              !.reqs = @ \ {r}]
  /\ UNCHANGED <<content, lastIndex, pdf, word, hist>>

\* scrapeUrl returns: analyzeContent builds the request, with the search
\* tool when there is no scraped content, and awaits generateContent.
ScrapeDone ==
  /\ Quiet
  /\ \E r \in app.reqs, outcome \in ScrapeOutcomes :
        /\ r.stage = "scraping"
        /\ app' = [app EXCEPT
                     !.reqs = (@ \ {r}) \cup
                              {[r EXCEPT !.stage = "requesting",
                                         !.scraped = scrapeUrl(outcome),
                                         !.tools = ~Truthy(scrapeUrl(outcome))]}]
  /\ UNCHANGED <<content, lastIndex, pdf, word, hist>>

\* generateContent resolves: analyzeContent returns the ExtractedData and
\* the handler goes on with setResult(data); setStatus('complete').
ModelResponds ==
  /\ Quiet
  /\ \E r \in app.reqs, text \in ResponseTexts :
        /\ r.stage = "requesting"
        /\ app' = [app EXCEPT
                     !.result = <<ExtractedData(text, r.id)>>,
                     !.status = "complete",
                     !.reqs = @ \ {r},
                     !.last = <<[kind |-> r.kind, scraped |-> r.scraped,
                                 tools |-> r.tools, outcome |-> "resolved",
                                 message |-> ""]>>]
  /\ UNCHANGED <<content, lastIndex, pdf, word, hist>>

\* A handler that calls analyzeContent a second time when the first call is
\* rejected, and reports the error only when the second is rejected as well.
ModelFails_Retries ==
  /\ Quiet
  /\ \E r \in app.reqs, m \in ThrownMessages :
        LET thrown == analyzeContentError(m)
            fallback == IF r.kind = "url" THEN "Failed to process URL"
                        ELSE "Failed to process file"
            settled == <<[kind |-> r.kind, scraped |-> r.scraped, tools |-> r.tools,
                          outcome |-> "rejected", message |-> thrown]>>
        IN  /\ r.stage = "requesting"
            /\ IF app.submits[r.id].analyses < 2
               THEN app' = [app EXCEPT !.submits[r.id].analyses = @ + 1,
                                       !.last = settled]
               ELSE app' = [app EXCEPT !.error = <<OrElse(thrown, fallback)>>,
                                       !.status = "error",
                                       !.reqs = @ \ {r},
                                       !.last = settled]
  /\ UNCHANGED <<content, lastIndex, pdf, word, hist>>

\* generateContent rejects: analyzeContent throws new Error(error.message ||
\* "Failed to analyze content") and the catch block of the handler runs.
ModelFails ==
  /\ Quiet
  /\ \E r \in app.reqs, m \in ThrownMessages :
        LET thrown == analyzeContentError(m)
            fallback == IF r.kind = "url" THEN "Failed to process URL"
                        ELSE "Failed to process file"
        IN  /\ r.stage = "requesting"
            /\ app' = [app EXCEPT
                         !.error = <<OrElse(thrown, fallback)>>,
                         !.status = "error",
                         !.reqs = @ \ {r},
                         !.last = <<[kind |-> r.kind, scraped |-> r.scraped,
                                     tools |-> r.tools, outcome |-> "rejected",
                                     message |-> thrown]>>]
  /\ UNCHANGED <<content, lastIndex, pdf, word, hist>>

\* The header is clicked, or the reset button of the result view.
resetApp ==
  /\ Quiet
  /\ app' = [app EXCEPT !.status = "idle", !.result = << >>, !.selectedType = << >>,
                        !.error = << >>, !.urlInput = ""]
  /\ UNCHANGED <<content, lastIndex, pdf, word, hist>>

\* The Try Again button of the error box.
TryAgain ==
  /\ Quiet
  /\ ShowsError
  /\ app' = [app EXCEPT !.status = "idle"]
  /\ UNCHANGED <<content, lastIndex, pdf, word, hist>>

\* The Export PDF button: exportToPDF(data.markdown), a fresh call.
handlePdfExport ==
  /\ Quiet
  /\ ShowsResult
  /\ content' = app.result[1].markdown
  /\ pdf' = [PdfIdle EXCEPT !.pc = "run",
                            !.lines = Split(app.result[1].markdown, "\n"),
                            !.i = 1,
                            !.y = StartY,
                            !.page = 1,
                            !.ops = <<[op |-> "title"]>>]
  /\ UNCHANGED <<lastIndex, word, hist, app>>

\* The Export Word button: exportToWord(data.markdown); a call still waiting
\* on its packing goes on by itself and is not followed further.
handleWordExport ==
  /\ Quiet
  /\ ShowsResult
  /\ content' = app.result[1].markdown
  /\ word' = [WordIdle EXCEPT !.pc = "run",
                              !.lines = Split(app.result[1].markdown, "\n"),
                              !.i = 1,
                              !.children = <<[node |-> "title"]>>]
  /\ UNCHANGED <<lastIndex, pdf, hist, app>>

InitApp ==
  /\ content = << >>
  /\ lastIndex = 0
  /\ pdf = PdfIdle
  /\ word = WordIdle
  /\ hist = NoHistory
  /\ app = AppIdle

NextApp ==
  \/ handleInputSelect
  \/ TypeUrl
  \/ handleUrlSubmit
  \/ handleFileUpload
  \/ FileRead
  \/ FileReadFails
  \/ ScrapeDone
  \/ ModelResponds
  \/ ModelFails
  \/ resetApp
  \/ TryAgain
  \/ handlePdfExport
  \/ handleWordExport
  \/ PdfLine
  \/ PdfSave
  \/ WordLine
  \/ WordPack
  \/ WordSave

SpecApp == InitApp /\ [][NextApp]_vars

\* ------------------------------------------------------------------------
\* A call run alone
\* ------------------------------------------------------------------------

\* exportToPDF on the lines, from its first statement up to line k of the
\* loop, with nothing else running.
RECURSIVE PdfRunTo(_, _)
PdfRunTo(p, k) ==
  IF p.i >= k THEN p ELSE PdfRunTo([PdfLineBody(p) EXCEPT !.i = p.i + 1], k)

PdfAloneTo(lines, k) ==
  PdfRunTo([PdfIdle EXCEPT !.pc = "run", !.lines = lines, !.i = 1, !.y = StartY,
                           !.page = 1, !.ops = <<[op |-> "title"]>>], k)

PdfAlone(lines) == PdfSaveBody(PdfAloneTo(lines, Len(lines) + 1))

\* exportToWord in the same way.
RECURSIVE WordRunTo(_, _)
WordRunTo(w, k) ==
  IF w.i >= k THEN w ELSE WordRunTo([WordLineBody(w) EXCEPT !.i = w.i + 1], k)

WordAloneTo(lines, k) ==
  WordRunTo([WordIdle EXCEPT !.pc = "run", !.lines = lines, !.i = 1,
                             !.children = <<[node |-> "title"]>>], k)

WordAlone(lines) == WordPackBody(WordAloneTo(lines, Len(lines) + 1))

\* ------------------------------------------------------------------------
\* Views of the input and of the output used by the properties
\* ------------------------------------------------------------------------

IsPipeLine(lines, j) == StartsWith(Trim(lines[j]), PIPE)
IsSeparatorLine(lines, j) == IsPipeLine(lines, j) /\ Includes(Trim(lines[j]), DASHES)

\* The first line of the maximal run of pipe-prefixed lines that ends at b.
RunStart(lines, b) == Min({a \in 1..b : \A j \in a..b : IsPipeLine(lines, j)})

\* Whether the run a..b of pipe-prefixed lines leaves the sink something to
\* flush: the PDF sink a header (a first line with a non-blank field), the
\* Word sink a row (a line that is no separator). "every" takes every run.
RunYieldsTable(sink, lines, a, b) ==
  CASE sink = "pdf" -> RowStrings(Trim(lines[a])) # << >>
    [] sink = "word" -> \E j \in a..b : ~IsSeparatorLine(lines, j)
    [] OTHER -> TRUE

\* The blocks owed for the first k lines, in document order: 0 for the table
\* of a run of pipe-prefixed lines, placed where the run ends, and j for the
\* heading or paragraph of the non-blank line j.
RECURSIVE BlocksOwed(_, _, _)
BlocksOwed(sink, lines, k) ==
  IF k = 0 THEN << >>
  ELSE BlocksOwed(sink, lines, k - 1)
       \o (IF IsPipeLine(lines, k) THEN << >>
           ELSE (IF /\ k > 1
                    /\ IsPipeLine(lines, k - 1)
                    /\ RunYieldsTable(sink, lines, RunStart(lines, k - 1), k - 1)
                 THEN <<0>> ELSE << >>)
                \o (IF Trim(lines[k]) # << >> THEN <<k>> ELSE << >>))

\* The same once the call has flushed the table open at the end of input.
BlocksOwedAtEnd(sink, lines) ==
  LET n == Len(lines)
  IN  BlocksOwed(sink, lines, n)
      \o (IF IsPipeLine(lines, n) /\ RunYieldsTable(sink, lines, RunStart(lines, n), n)
          THEN <<0>> ELSE << >>)

PdfIsBlock(o) == o.op \in {"heading", "linkLine", "wrapped", "table"}
WordIsBlock(c) == c.node \in {"heading", "para", "table"}

\* The blocks a call has emitted: 0 for a table, the line number otherwise.
RECURSIVE PdfBlocks(_)
PdfBlocks(ops) ==
  IF ops = << >> THEN << >>
  ELSE (IF ~PdfIsBlock(Head(ops)) THEN << >>
        ELSE IF Head(ops).op = "table" THEN <<0>> ELSE <<Head(ops).src>>)
       \o PdfBlocks(Tail(ops))

RECURSIVE WordBlocks(_)
WordBlocks(cs) ==
  IF cs = << >> THEN << >>
  ELSE (IF ~WordIsBlock(Head(cs)) THEN << >>
        ELSE IF Head(cs).node = "table" THEN <<0>> ELSE <<Head(cs).src>>)
       \o WordBlocks(Tail(cs))

PdfTables == SelectSeq(pdf.ops, LAMBDA o : o.op = "table")
WordTables == SelectSeq(word.children, LAMBDA c : c.node = "table")

\* ------------------------------------------------------------------------
\* Properties
\* ------------------------------------------------------------------------

\* C1 (as amended). In both sinks each maximal run of consecutive
\* pipe-prefixed lines is emitted as at most one table, exactly one when the
\* run left the sink something to flush (PDF: the first line of the run has a
\* non-blank field; Word: the run has a line that is no separator), and that
\* table stands before the block of the first following non-pipe line, the
\* headings and paragraphs keeping their document order; no table is emitted
\* anywhere else.
C1_TablesKeepTheirPlace ==
  /\ pdf.pc = "run" => PdfBlocks(pdf.ops) = BlocksOwed("pdf", pdf.lines, pdf.i - 1)
  /\ pdf.pc = "done" => PdfBlocks(pdf.ops) = BlocksOwedAtEnd("pdf", pdf.lines)
  /\ word.pc = "run" => WordBlocks(word.children) = BlocksOwed("word", word.lines, word.i - 1)
  /\ word.pc \in {"packing", "done"} =>
       WordBlocks(word.children) = BlocksOwedAtEnd("word", word.lines)

\* C1, witness: both calls have finished an input in which a table is
\* followed by a heading or paragraph, and both emitted them in that order.
C1_Witness ==
  /\ pdf.pc = "done"
  /\ word.pc = "done"
  /\ \E k \in 1..(Len(PdfBlocks(pdf.ops)) - 1) :
        PdfBlocks(pdf.ops)[k] = 0 /\ PdfBlocks(pdf.ops)[k + 1] > 0
  /\ \E k \in 1..(Len(WordBlocks(word.children)) - 1) :
        WordBlocks(word.children)[k] = 0 /\ WordBlocks(word.children)[k + 1] > 0

\* C1 as first stated: every maximal run of pipe-prefixed lines is emitted as
\* exactly one table, before the block of the following line.
C1_EveryRunOneTable ==
  /\ pdf.pc = "done" => PdfBlocks(pdf.ops) = BlocksOwedAtEnd("every", pdf.lines)
  /\ word.pc = "done" => WordBlocks(word.children) = BlocksOwedAtEnd("every", word.lines)

\* C2. A pipe-prefixed line that contains --- never appears as table data,
\* neither as the header nor as a body row, in either sink, wherever it
\* stands in its table region.
C2_SeparatorNeverData ==
  /\ \A t \in 1..Len(PdfTables) :
        /\ ~IsSeparatorLine(pdf.lines, PdfTables[t].headSrc)
        /\ \A r \in 1..Len(PdfTables[t].bodySrc) :
              ~IsSeparatorLine(pdf.lines, PdfTables[t].bodySrc[r])
  /\ \A t \in 1..Len(WordTables) :
        \A r \in 1..Len(WordTables[t].rowSrc) :
           ~IsSeparatorLine(word.lines, WordTables[t].rowSrc[r])

\* The fields of a table line between its outer pipes: the split on the
\* pipe without the empty field before the first pipe and without the empty
\* field after the last one.
InnerFields(trimmed) ==
  LET fs == Split(trimmed, "|")
      last == IF Trim(fs[Len(fs)]) = << >> THEN Len(fs) - 1 ELSE Len(fs)
  IN  IF last < 2 THEN << >> ELSE SubSeq(fs, 2, last)

\* C3. Only the empty leading and trailing fields of a table line are
\* dropped: in both sinks a row has one cell per field between the outer
\* pipes, the k-th cell holding the k-th field, an empty field giving an
\* empty cell.
C3_KthFieldIsKthCell ==
  /\ \A t \in 1..Len(PdfTables) :
        \A r \in 1..Len(PdfTables[t].body) :
           LET fs == InnerFields(Trim(pdf.lines[PdfTables[t].bodySrc[r]]))
           IN  /\ Len(PdfTables[t].body[r]) = Len(fs)
               /\ \A k \in 1..Len(fs) :
                     PdfTables[t].body[r][k] = parseCellForPDF(Trim(fs[k]))
  /\ \A t \in 1..Len(WordTables) :
        \A r \in 1..Len(WordTables[t].rows) :
           LET fs == InnerFields(Trim(word.lines[WordTables[t].rowSrc[r]]))
           IN  /\ Len(WordTables[t].rows[r]) = Len(fs)
               /\ \A k \in 1..Len(fs) :
                     WordTables[t].rows[r][k].children =
                       WordCell(Trim(fs[k]), Len(fs), FALSE).children

\* The lines of the table region of a table whose first row was read from
\* line a: the pipe-prefixed lines from a on.
RegionEnd(lines, a) ==
  CHOOSE b \in a..Len(lines) :
     /\ \A j \in a..b : IsPipeLine(lines, j)
     /\ b = Len(lines) \/ ~IsPipeLine(lines, b + 1)

\* C4. A body row whose field count differs from the header's is accepted
\* as it is by both sinks: every line of the region that is no separator is
\* a row of the table, and the cells of a short row stay in the columns of
\* the header (in the flow document, under the header cells of the same
\* index and of the same width), the missing field being an empty cell.
C4_RaggedRowKeepsItsColumns ==
  /\ \A t \in 1..Len(PdfTables) :
        \A j \in (PdfTables[t].headSrc + 1)..RegionEnd(pdf.lines, PdfTables[t].headSrc) :
           ~IsSeparatorLine(pdf.lines, j) =>
              \E r \in 1..Len(PdfTables[t].bodySrc) : PdfTables[t].bodySrc[r] = j
  /\ \A t \in 1..Len(WordTables) :
        LET rows == WordTables[t].rows
            src == WordTables[t].rowSrc
        IN  /\ \A j \in src[1]..RegionEnd(word.lines, src[1]) :
                  ~IsSeparatorLine(word.lines, j) => \E r \in 1..Len(src) : src[r] = j
            /\ \A r \in 2..Len(rows) :
                  /\ Len(rows[r]) >= Len(rows[1])
                  /\ \A k \in 1..Len(rows[1]) : rows[r][k].width = rows[1][k].width

\* The blocks the paginated sink has drawn, with the cursor they start at.
PdfDrawnBlocks == SelectSeq(pdf.ops, PdfIsBlock)

\* C5. In the PDF sink no block (heading, paragraph or table) starts at a
\* cursor position beyond the bottom threshold: the check that starts a new
\* page comes before every block, the block after a table and the table
\* flushed at end of input included.
C5_NoBlockStartsPastThreshold ==
  \A b \in 1..Len(PdfDrawnBlocks) : PdfDrawnBlocks[b].y <= BreakY

\* A text that is exactly one link span: the scan finds one link, and it
\* covers the text from its first character to its last.
IsOneLinkSpan(text) ==
  /\ Len(LinkScan(text, 0)) = 2
  /\ LinkScan(text, 0)[1].index = 0
  /\ LinkScan(text, 0)[1].lastIndex = Len(text)

\* C6. A table cell is marked as a whole-cell link exactly when its whole
\* trimmed content is one link span; a cell of a link and more text, or of
\* two link spans, is not marked; the URL of a marked cell is the URL of
\* that span.
C6_WholeCellLinkIffOneSpan ==
  \A t \in 1..Len(PdfTables) :
     \A r \in 1..Len(PdfTables[t].body) :
        LET fs == RowStrings(Trim(pdf.lines[PdfTables[t].bodySrc[r]]))
        IN  \A k \in 1..Len(PdfTables[t].body[r]) :
               LET cell == PdfTables[t].body[r][k]
                   text == Trim(fs[k])
               IN  /\ cell.isObj <=> IsOneLinkSpan(text)
                   /\ cell.isObj => cell.link = LinkExec(text, 0).url

\* C7. Header cells are built by the cell construction of the body rows in
\* both sinks: a header field that is a link span is emitted as a link, the
\* label shown and the URL attached, as it would be in a body row.
C7_HeaderCellsBuiltLikeBodyCells ==
  /\ \A t \in 1..Len(PdfTables) :
        LET asBody == PdfBodyCells(Trim(pdf.lines[PdfTables[t].headSrc]))
        IN  \A k \in 1..Len(PdfTables[t].head) :
               /\ PdfTables[t].head[k] = asBody[k].content
               /\ asBody[k].isObj /\ asBody[k].link # << >> =>
                     \E n \in 1..Len(PdfTables[t].links) :
                        PdfTables[t].links[n] = asBody[k].link
  /\ \A t \in 1..Len(WordTables) :
        \A k \in 1..Len(WordTables[t].rows[1]) :
           WordTables[t].rows[1][k].children =
             WordRowCells(Trim(word.lines[WordTables[t].rowSrc[1]]), FALSE)[k].children

\* The prefix of a level-4 heading line, which neither sink tests for.
H4 == <<"#", "#", "#", "#", " ">>

\* The level of the heading prefix a trimmed line starts with, 0 for none.
HeadingPrefixLevel(trimmed) ==
  CASE StartsWith(trimmed, H1) -> 1
    [] StartsWith(trimmed, H2) -> 2
    [] StartsWith(trimmed, H3) -> 3
    [] StartsWith(trimmed, H4) -> 4
    [] OTHER -> 0

PdfLineBlocks == SelectSeq(pdf.ops, LAMBDA o : o.op \in {"heading", "linkLine", "wrapped"})
WordLineBlocks == SelectSeq(word.children, LAMBDA c : c.node \in {"heading", "para"})

\* C8. A line that starts with one to four # and a space is emitted as a
\* heading of level 1 to 4 in the PDF sink and in the Word sink, never as a
\* paragraph.
C8_HeadingLinesAreHeadings ==
  /\ \A b \in 1..Len(PdfLineBlocks) :
        LET level == HeadingPrefixLevel(Trim(pdf.lines[PdfLineBlocks[b].src]))
        IN  level > 0 => PdfLineBlocks[b].op = "heading" /\ PdfLineBlocks[b].level = level
  /\ \A b \in 1..Len(WordLineBlocks) :
        LET level == HeadingPrefixLevel(Trim(word.lines[WordLineBlocks[b].src]))
        IN  level > 0 => WordLineBlocks[b].node = "heading" /\ WordLineBlocks[b].level = level

\* C9. The Word sink emits a heading paragraph of the matching level for the
\* heading levels 1 to 3, and a level-3 heading paragraph for a level-4
\* heading line.
C9_WordHeadingRanks ==
  \A b \in 1..Len(WordLineBlocks) :
     LET level == HeadingPrefixLevel(Trim(word.lines[WordLineBlocks[b].src]))
     IN  level > 0 =>
           /\ WordLineBlocks[b].node = "heading"
           /\ WordLineBlocks[b].level = (IF level = 4 THEN 3 ELSE level)

\* C10. Heading text passes through the inline link extraction in both
\* sinks: no heading is emitted with a link span left in its text as raw
\* Markdown.
C10_HeadingLinksExtracted ==
  /\ \A b \in 1..Len(PdfLineBlocks) :
        PdfLineBlocks[b].op = "heading" => ~LinkExec(PdfLineBlocks[b].text, 0).found
  /\ \A b \in 1..Len(WordLineBlocks) :
        WordLineBlocks[b].node = "heading" =>
           \A n \in 1..Len(WordLineBlocks[b].children) :
              WordLineBlocks[b].children[n].t = "text" =>
                 ~LinkExec(WordLineBlocks[b].children[n].text, 0).found

\* ------------------------------------------------------------------------
\* Inline extraction as the sinks apply it
\* ------------------------------------------------------------------------

\* The prefix the Word sink removes from a heading of a level.
WordHeadingPrefix(level) == IF level = 3 THEN H3 ELSE IF level = 2 THEN H2 ELSE H1

\* Every application of the inline extraction whose result the Word sink has
\* emitted: the text span handed to it and the runs it gave, for paragraphs,
\* headings and table cells.
WordExtractions ==
  {[text |-> Trim(word.lines[word.children[n].src]), runs |-> word.children[n].children] :
      n \in {m \in 1..Len(word.children) : word.children[m].node = "para"}}
  \cup
  {[text |-> ReplaceFirst(Trim(word.lines[word.children[n].src]),
                          WordHeadingPrefix(word.children[n].level), << >>),
    runs |-> word.children[n].children] :
      n \in {m \in 1..Len(word.children) : word.children[m].node = "heading"}}
  \cup
  UNION {UNION {{[text |-> ReplaceAll(ReplaceAll(
                             WordCellTexts(Trim(word.lines[WordTables[t].rowSrc[r]]))[k],
                             BOLD, << >>), BR, NL),
                  runs |-> WordTables[t].rows[r][k].children] :
                    k \in 1..Len(WordTables[t].rows[r])} :
                r \in 1..Len(WordTables[t].rows)} :
           t \in 1..Len(WordTables)}

\* The draw calls of a line with links, as runs.
DrawsAsRuns(draws) ==
  [k \in 1..Len(draws) |->
     IF draws[k].call = "textWithLink"
     THEN ExternalHyperlink(draws[k].text, draws[k].url)
     ELSE TextRun(draws[k].text)]

\* The same for the lines the PDF sink has drawn run by run.
PdfExtractions ==
  {[text |-> Trim(pdf.lines[pdf.ops[n].src]), runs |-> DrawsAsRuns(pdf.ops[n].draws)] :
      n \in {m \in 1..Len(pdf.ops) : pdf.ops[m].op = "linkLine"}}

\* The visible text of a run sequence: the contents and labels, in order.
RECURSIVE VisibleText(_)
VisibleText(runs) ==
  IF runs = << >> THEN << >> ELSE Head(runs).text \o VisibleText(Tail(runs))

\* The links of a run sequence, in order, as label and URL.
RECURSIVE LinksOf(_)
LinksOf(runs) ==
  IF runs = << >> THEN << >>
  ELSE (IF Head(runs).t = "link" THEN <<<<Head(runs).text, Head(runs).link>>>> ELSE << >>)
       \o LinksOf(Tail(runs))

\* The link spans of a text, left to right, as label and URL.
RECURSIVE LinkSpansFrom(_, _)
LinkSpansFrom(text, from) ==
  LET m == LinkExec(text, from)
  IN  IF ~m.found THEN << >>
      ELSE <<<<m.label, m.url>>>> \o LinkSpansFrom(text, m.lastIndex)

LinkSpans(text) == LinkSpansFrom(text, 0)

\* C11 (as amended). For every text span the run sequence of the inline
\* extraction is order-preserving and lossless: the contents of its Text runs
\* and the labels of its Link runs, concatenated in order, are the input
\* with every link span replaced by its label; a non-empty input with no
\* link span gives the single Text run equal to the input, and the empty
\* input gives no run.
C11_RunsAreLossless ==
  \A x \in WordExtractions \cup PdfExtractions :
     /\ VisibleText(x.runs) = ReplaceLinksByLabel(x.text, 0)
     /\ LinkSpans(x.text) = << >> /\ x.text # << >> => x.runs = <<TextRun(x.text)>>
     /\ x.text = << >> => x.runs = << >>

\* C11, witness: both calls are done and each has emitted a span as text
\* followed or preceded by a link, and the Word sink a span without link.
C11_Witness ==
  /\ pdf.pc = "done"
  /\ word.pc = "done"
  /\ \E x \in WordExtractions : Len(x.runs) >= 2 /\ LinkSpans(x.text) # << >>
  /\ \E x \in PdfExtractions : Len(x.runs) >= 2
  /\ \E x \in WordExtractions : LinkSpans(x.text) = << >> /\ x.text # << >>

\* C11 as first stated: every input with no link span, the empty one
\* included, gives a single Text run equal to the input.
C11_NoLinkGivesOneRun ==
  \A x \in WordExtractions \cup PdfExtractions :
     /\ VisibleText(x.runs) = ReplaceLinksByLabel(x.text, 0)
     /\ LinkSpans(x.text) = << >> => x.runs = <<TextRun(x.text)>>

\* The paragraphs the Word sink has emitted, as text span and runs.
WordParagraphs ==
  {[text |-> Trim(word.lines[word.children[n].src]), runs |-> word.children[n].children] :
      n \in {m \in 1..Len(word.children) : word.children[m].node = "para"}}

\* The paragraphs the PDF sink has drawn, as text span and runs; a paragraph
\* drawn as wrapped plain text has no link output.
PdfParagraphs ==
  PdfExtractions
  \cup
  {[text |-> Trim(pdf.lines[pdf.ops[n].src]), runs |-> << >>] :
      n \in {m \in 1..Len(pdf.ops) : pdf.ops[m].op = "wrapped"}}

\* C12. A paragraph line with k link spans, k >= 1, gives exactly k link
\* outputs in left-to-right order in each sink (clickable regions in the
\* PDF, hyperlink runs in the Word document), each with exactly the label
\* and the URL of its span.
C12_LinkOutputsAreTheSpans ==
  \A x \in WordParagraphs \cup PdfParagraphs : LinksOf(x.runs) = LinkSpans(x.text)

\* C12, witness: both calls are done on a paragraph with two link spans and
\* each sink has emitted its two link outputs.
C12_Witness ==
  /\ pdf.pc = "done"
  /\ word.pc = "done"
  /\ \E x \in WordParagraphs : Len(LinkSpans(x.text)) = 2 /\ Len(LinksOf(x.runs)) = 2
  /\ \E x \in PdfParagraphs : Len(LinkSpans(x.text)) = 2 /\ Len(LinksOf(x.runs)) = 2

\* The contents of the Text runs of the paragraphs of both sinks; a paragraph
\* the PDF sink draws as wrapped plain text is one Text run.
ParagraphTextContents ==
  UNION {{x.runs[k].text : k \in {j \in 1..Len(x.runs) : x.runs[j].t = "text"}} :
           x \in WordParagraphs \cup PdfExtractions}
  \cup
  {pdf.ops[n].text : n \in {m \in 1..Len(pdf.ops) : pdf.ops[m].op = "wrapped"}}

\* C13. Bold markers and backtick code markers never appear in the content
\* of an emitted Text run of a paragraph, in both sinks, with or without a
\* link in the paragraph.
C13_NoMarkersInTextRuns ==
  \A t \in ParagraphTextContents : ~Includes(t, BOLD) /\ ~Includes(t, TICK)

\* The lines a..b that are no separator rows, in order.
DataLines(lines, a, b) ==
  IF b < a THEN << >>
  ELSE SelectSeq([k \in 1..(b - a + 1) |-> a + k - 1],
                 LAMBDA j : ~IsSeparatorLine(lines, j))

\* C14. A table still open when the input ends is emitted before the
\* artifact is produced, and no buffered header or body row is lost: when
\* the last line is a table line, the last thing emitted before the save is
\* the table of the final region, with every row the sink has buffered for
\* it (PDF: the first line as header and every later line that is no
\* separator as body row, when one of them has a non-blank field; Word:
\* every line that is no separator).
C14_OpenTableFlushedAtEnd ==
  /\ pdf.pc = "done" /\ IsPipeLine(pdf.lines, Len(pdf.lines)) =>
       LET n == Len(pdf.lines)
           a == RunStart(pdf.lines, n)
           rows == DataLines(pdf.lines, a + 1, n)
           k == Len(pdf.ops) - 1
       IN  (\E j \in a..n : ~IsSeparatorLine(pdf.lines, j) /\ RowStrings(Trim(pdf.lines[j])) # << >>)
           \/ RowStrings(Trim(pdf.lines[a])) # << >> =>
             /\ k >= 1
             /\ pdf.ops[k].op = "table"
             /\ pdf.ops[k].headSrc = a
             /\ pdf.ops[k].bodySrc = rows
  /\ word.pc \in {"packing", "done"} /\ IsPipeLine(word.lines, Len(word.lines)) =>
       LET n == Len(word.lines)
           rows == DataLines(word.lines, RunStart(word.lines, n), n)
           k == Len(word.children) - 1
       IN  rows # << >> =>
             /\ k >= 1
             /\ word.children[k].node = "table"
             /\ word.children[k].rowSrc = rows

\* The first lines of the table regions that open with a line that is no
\* separator row and that hold a non-blank field in such a line.
RegionStarts(lines) ==
  {a \in 1..Len(lines) :
     /\ IsPipeLine(lines, a)
     /\ a = 1 \/ ~IsPipeLine(lines, a - 1)
     /\ ~IsSeparatorLine(lines, a)
     /\ \E j \in a..RegionEnd(lines, a) :
           ~IsSeparatorLine(lines, j) /\ RowStrings(Trim(lines[j])) # << >>}

\* C15. The table emitted for a table region has as header the fields of
\* the first line of the region and as body rows the fields of every later
\* line of the region that is no separator, in document order, no row lost,
\* duplicated or reordered: once a call is through its input, each region
\* has exactly one table, whose header was read from the first line of the
\* region with one cell per field and whose body rows were read from exactly
\* those later lines, in their order, with one cell per field.
C15_TableIsItsRegion ==
  /\ pdf.pc = "done" =>
       \A a \in RegionStarts(pdf.lines) :
          LET ts == {t \in 1..Len(PdfTables) : PdfTables[t].headSrc = a}
          IN  /\ Cardinality(ts) = 1
              /\ \A t \in ts :
                    /\ Len(PdfTables[t].head) = Len(RowStrings(Trim(pdf.lines[a])))
                    /\ PdfTables[t].bodySrc =
                         DataLines(pdf.lines, a + 1, RegionEnd(pdf.lines, a))
                    /\ \A r \in 1..Len(PdfTables[t].body) :
                          Len(PdfTables[t].body[r]) =
                            Len(RowStrings(Trim(pdf.lines[PdfTables[t].bodySrc[r]])))
  /\ word.pc \in {"packing", "done"} =>
       \A a \in RegionStarts(word.lines) :
          LET ts == {t \in 1..Len(WordTables) :
                       WordTables[t].rowSrc # << >> /\ WordTables[t].rowSrc[1] = a}
          IN  /\ Cardinality(ts) = 1
              /\ \A t \in ts :
                    /\ WordTables[t].rowSrc =
                         DataLines(word.lines, a, RegionEnd(word.lines, a))
                    /\ \A r \in 1..Len(WordTables[t].rows) :
                          Len(WordTables[t].rows[r]) =
                            Len(RowStrings(Trim(word.lines[WordTables[t].rowSrc[r]])))

\* No line of the input starts, after trimming, with a pipe.
NoPipeInput ==
  LET ls == Split(content, "\n")
  IN  \A j \in 1..Len(ls) : ~IsPipeLine(ls, j)

\* C16. For an input in which no line starts, after trimming, with a pipe,
\* the table state is never activated during the whole pass and both sinks
\* emit zero tables.
C16_NoPipeNoTable ==
  NoPipeInput =>
    /\ ~pdf.inTable /\ pdf.tableHeader = << >> /\ pdf.tableBody = << >>
    /\ PdfTables = << >>
    /\ ~word.inTable /\ word.tableRows = << >>
    /\ WordTables = << >>
    /\ \A n \in 1..Len(word.children) : word.children[n].node # "blank"

\* C16, witness: both calls are done on an input of several lines without a
\* table line, one of them with a pipe inside its text.
C16_Witness ==
  /\ NoPipeInput
  /\ pdf.pc = "done"
  /\ word.pc = "done"
  /\ Len(pdf.lines) >= 2
  /\ \E j \in 1..Len(pdf.lines) : Includes(pdf.lines[j], PIPE)
  /\ Len(PdfLineBlocks) >= 2
  /\ Len(WordLineBlocks) >= 2

\* The lines that are neither blank nor table lines, in order.
TextLines(lines) ==
  SelectSeq([j \in 1..Len(lines) |-> j],
            LAMBDA j : Trim(lines[j]) # << >> /\ ~IsPipeLine(lines, j))

\* Every text line has exactly one block, the blocks standing in document
\* order, and blank lines and table lines have none.
OneBlockPerTextLine ==
  /\ pdf.pc = "done" =>
       [b \in 1..Len(PdfLineBlocks) |-> PdfLineBlocks[b].src] = TextLines(pdf.lines)
  /\ word.pc \in {"packing", "done"} =>
       [b \in 1..Len(WordLineBlocks) |-> WordLineBlocks[b].src] = TextLines(word.lines)

\* C19. In both sinks every non-empty trimmed line that does not start with
\* a pipe gives exactly one block, a heading if it has a heading prefix and
\* a paragraph otherwise; the blocks are emitted in document order and
\* blank lines give nothing.
C19_OneBlockOfItsKindPerLine ==
  /\ OneBlockPerTextLine
  /\ \A b \in 1..Len(PdfLineBlocks) :
        PdfLineBlocks[b].op = "heading"
          <=> HeadingPrefixLevel(Trim(pdf.lines[PdfLineBlocks[b].src])) > 0
  /\ \A b \in 1..Len(WordLineBlocks) :
        WordLineBlocks[b].node = "heading"
          <=> HeadingPrefixLevel(Trim(word.lines[WordLineBlocks[b].src])) > 0

\* The input is empty or made of blank lines only.
BlankInput ==
  LET ls == Split(content, "\n")
  IN  \A j \in 1..Len(ls) : Trim(ls[j]) = << >>

\* C20. For an empty input, and for an input of blank lines only, each sink
\* gives a document with the title region only: in the PDF the title and
\* rule on a single page, no further draw call and no added page, the
\* cursor staying where the title left it; in the Word document the single
\* title node.
C20_BlankInputTitleOnly ==
  BlankInput =>
    /\ pdf.pc = "run" => pdf.ops = <<[op |-> "title"]>> /\ pdf.page = 1 /\ pdf.y = StartY
    /\ pdf.pc = "done" =>
         pdf.ops = <<[op |-> "title"], [op |-> "save"]>> /\ pdf.page = 1 /\ pdf.y = StartY
    /\ word.pc \in {"run", "packing", "done"} => word.children = <<[node |-> "title"]>>
    /\ word.pc = "done" => word.saved

\* C20, witness: both calls are done on an input of several blank lines, one
\* of them made of spaces.
C20_Witness ==
  /\ BlankInput
  /\ Len(content) >= 3
  /\ pdf.pc = "done"
  /\ Len(pdf.lines) >= 2
  /\ word.pc = "done"

C21_EmptyFlushIsNoOp ==
  /\ pdf.pc = "run" =>
       LET once == PdfFlushTable(pdf)
           twice == PdfFlushTable(once)
       IN  /\ pdf.tableHeader = << >> =>
                once.ops = pdf.ops /\ once.y = pdf.y /\ once.page = pdf.page
           /\ twice.ops = once.ops /\ twice.y = once.y /\ twice.page = once.page
           /\ Len(twice.ops) <= Len(pdf.ops) + 1
  /\ word.pc = "run" =>
       LET once == WordFlushTable(word)
           twice == WordFlushTable(once)
       IN  /\ word.tableRows = << >> => once.children = word.children
           /\ twice.children = once.children
           /\ Len(SelectSeq(twice.children, LAMBDA c : c.node = "table"))
                <= Len(WordTables) + 1

\* C21, witness: both calls are done, the PDF call having flushed, at the
\* end of its input, a region whose first line gave no header, and the Word
\* call a region made of separator rows only; neither flush emitted a table.
C21_Witness ==
  /\ pdf.pc = "done"
  /\ IsPipeLine(pdf.lines, Len(pdf.lines))
  /\ RowStrings(Trim(pdf.lines[RunStart(pdf.lines, Len(pdf.lines))])) = << >>
  /\ pdf.ops[Len(pdf.ops) - 1].op # "table"
  /\ word.pc = "done"
  /\ \E a \in 1..Len(word.lines) :
        /\ IsPipeLine(word.lines, a)
        /\ a = 1 \/ ~IsPipeLine(word.lines, a - 1)
        /\ \A j \in a..RegionEnd(word.lines, a) : IsSeparatorLine(word.lines, j)
        /\ \A t \in 1..Len(WordTables) :
              \A r \in 1..Len(WordTables[t].rowSrc) :
                 WordTables[t].rowSrc[r] \notin a..RegionEnd(word.lines, a)

\* C22. For every input the PDF sink and the Word sink derive the same
\* sequence of tables: once both calls are through the input they have the
\* same number of tables, standing at the same places among the heading and
\* paragraph blocks, each with its header read from the same line and its
\* body rows read from the same lines, with the same number of cells.
C22_SinksDeriveSameTables ==
  pdf.pc = "done" /\ word.pc \in {"packing", "done"} /\ pdf.lines = word.lines =>
    /\ PdfBlocks(pdf.ops) = WordBlocks(word.children)
    /\ Len(PdfTables) = Len(WordTables)
    /\ \A t \in 1..Min({Len(PdfTables), Len(WordTables)}) :
          /\ <<PdfTables[t].headSrc>> \o PdfTables[t].bodySrc = WordTables[t].rowSrc
          /\ Len(WordTables[t].rows) = 1 + Len(PdfTables[t].body)
          /\ Len(WordTables[t].rows[1]) = Len(PdfTables[t].head)
          /\ \A r \in 1..Len(PdfTables[t].body) :
                Len(WordTables[t].rows[r + 1]) = Len(PdfTables[t].body[r])

\* C23. In every table emitted by the Word sink there is one row per
\* accumulated row, the cells of the first row, the header row, have the
\* shaded fill and the cells of every other row the plain one; this holds
\* for every table of the document, the tables after the first included.
C23_OnlyHeaderRowShaded ==
  \A t \in 1..Len(WordTables) :
     /\ Len(WordTables[t].rows) = Len(WordTables[t].rowSrc)
     /\ Len(WordTables[t].rows) >= 1
     /\ \A r \in 1..Len(WordTables[t].rows) :
           \A k \in 1..Len(WordTables[t].rows[r]) :
              WordTables[t].rows[r][k].fill = (IF r = 1 THEN "F1F5F9" ELSE "FFFFFF")

\* C23, witness: the Word call is done and has emitted two tables, each with
\* a header row that has cells.
C23_Witness ==
  /\ word.pc = "done"
  /\ Len(WordTables) = 2
  /\ \A t \in 1..Len(WordTables) : Len(WordTables[t].rows[1]) >= 1

\* C23, witness of the body rows: a table of three rows with cells.
C23_BodyRowsReached ==
  /\ word.pc = "done"
  /\ \E t \in 1..Len(WordTables) :
        /\ Len(WordTables[t].rows) = 3
        /\ \A r \in 1..3 : Len(WordTables[t].rows[r]) >= 1

\* C24. In the node list of the Word sink every table node is immediately
\* followed by one empty paragraph node, and an empty paragraph node stands
\* only directly after a table: no paragraph or heading built from a line is
\* empty.
C24_BlankFollowsEveryTable ==
  \A n \in 1..Len(word.children) :
     LET c == word.children[n]
     IN  /\ c.node = "table" =>
              /\ n < Len(word.children)
              /\ word.children[n + 1].node = "blank"
         /\ c.node = "blank" => n > 1 /\ word.children[n - 1].node = "table"
         /\ c.node \in {"para", "heading"} => c.children # << >>

\* C24, witness: the Word call is done with a table in the middle of the
\* document and a table at its end, each followed by its empty paragraph.
C24_Witness ==
  /\ word.pc = "done"
  /\ Len(WordTables) = 2
  /\ word.children[Len(word.children)].node = "blank"
  /\ \E n \in 1..Len(word.children) : word.children[n].node = "para"

\* The number of doc.save calls of the PDF call.
PdfSaves == Len(SelectSeq(pdf.ops, LAMBDA o : o.op = "save"))

\* An artifact is there only when the call is through: the whole input has
\* been handled, the flush at the end of input has run, and the save is the
\* last thing the call did; a failed call has saved nothing.
ArtifactOnlyAtEnd ==
  /\ PdfSaves <= 1
  /\ PdfSaves = 1 =>
       /\ pdf.pc = "done"
       /\ pdf.i > Len(pdf.lines)
       /\ ~pdf.inTable
       /\ pdf.ops[Len(pdf.ops)].op = "save"
  /\ pdf.pc = "done" => PdfSaves = 1
  /\ word.saved =>
       /\ word.pc = "done"
       /\ word.i > Len(word.lines)
       /\ ~word.inTable
       /\ word.tableRows = << >>
  /\ word.pc = "done" => word.saved

\* C25. Each export call persists at most one artifact, and only after the
\* whole input has been handled and the pending table flushed; when a step
\* before the save fails, the call ends there: nothing is saved, and the
\* call does nothing more afterwards (no retry), as a finished call does
\* nothing more either.
C25_OneArtifactOrNone ==
  [][/\ ArtifactOnlyAtEnd'
     /\ pdf.pc \in {"failed", "done"} => pdf' = pdf
     /\ word.pc \in {"failed", "done"} => word' = word]_vars

\* C25, witness: the PDF call has failed after drawing part of the input and
\* has saved nothing, while the Word call has gone through an input ending
\* in a table and has saved its one file.
C25_Witness ==
  /\ pdf.pc = "failed"
  /\ Len(pdf.ops) >= 2
  /\ PdfSaves = 0
  /\ word.pc = "done"
  /\ word.saved
  /\ IsPipeLine(word.lines, Len(word.lines))
  /\ word.children[Len(word.children)].node = "blank"

\* C25, witness of the rejected packing: the Word call has failed after
\* its whole input, with nothing saved.
C25_RejectReached ==
  /\ word.pc = "failed"
  /\ word.i > Len(word.lines)
  /\ ~word.saved
  /\ WordTables # << >>

\* C29. In exportToPDF, whenever the call is outside a table region
\* (inTable is false, as after every flush) tableHeader and tableBody are
\* both empty; so every emitted table holds only body rows read from its own
\* run of table lines, never rows buffered from an earlier region.
C29_BuffersEmptyOutsideTable ==
  /\ pdf.pc \in {"run", "done"} /\ ~pdf.inTable =>
       pdf.tableHeader = << >> /\ pdf.tableBody = << >>
  /\ \A t \in 1..Len(PdfTables) :
        \A r \in 1..Len(PdfTables[t].bodySrc) :
           PdfTables[t].bodySrc[r] \in
             (PdfTables[t].headSrc + 1)..RegionEnd(pdf.lines, PdfTables[t].headSrc)

\* The number of analyzeContent calls made so far.
RECURSIVE SumAnalyses(_)
SumAnalyses(subs) ==
  IF subs = << >> THEN 0 ELSE subs[1].analyses + SumAnalyses(Tail(subs))

\* The submissions whose handler has not come to its end.
Pending == {r.id : r \in app.reqs}

\* C26: the App never retries. analyzeContent is called at most once for a
\* submission: once for a submitted URL and for a file within the size limit
\* that was read, never for a file over the limit or one whose reading
\* failed. A rejected analysis leaves status 'error' with a message, the
\* state in which the error box and Try Again are rendered, and a call of
\* analyzeContent is only ever made by the submit handlers, for the
\* submission they handle.
C26_NoAutomaticRetry ==
  [][/\ \A i \in 1..Len(app.submits') :
          /\ app.submits'[i].analyses <= 1
          /\ app.submits'[i].kind = "url" => app.submits'[i].analyses = 1
     /\ \A r \in app.reqs' :
          /\ r.id \in 1..Len(app.submits')
          /\ app.submits'[r.id].analyses = (IF r.stage = "reading" THEN 0 ELSE 1)
     /\ ModelFails => ShowsError' /\ app.error' # << >>
     /\ SumAnalyses(app.submits') # SumAnalyses(app.submits)
          => /\ handleUrlSubmit \/ FileRead
             /\ SumAnalyses(app.submits') = SumAnalyses(app.submits) + 1]_vars

\* C26, witness: two submissions were made, each was analysed once, the
\* last analysis was rejected and the error box is shown.
C26_Witness ==
  /\ Len(app.submits) = 2
  /\ \A i \in 1..2 : app.submits[i].analyses = 1
  /\ app.reqs = {}
  /\ app.last # << >>
  /\ app.last[1].outcome = "rejected"
  /\ ShowsError
  /\ app.error # << >>

\* C26 as stated: every submission whose handler has come to its end was
\* analysed exactly once.
C26_ExactlyOncePerSubmission ==
  \A i \in 1..Len(app.submits) :
     i \notin Pending => app.submits[i].analyses = 1

\* The analyzeContent calls that have made their model request: those in
\* flight and the last one that settled.
SentCalls ==
  {[kind |-> r.kind, scraped |-> r.scraped, tools |-> r.tools] :
     r \in {q \in app.reqs : q.stage = "requesting"}}
  \cup {[kind |-> c.kind, scraped |-> c.scraped, tools |-> c.tools] :
          c \in {app.last[k] : k \in 1..Len(app.last)}}

\* C28: analyzeContent resolves or rejects with an Error whose message is
\* not empty. On the URL path the model request is made whatever the scrape
\* gave, so a rejection only ever follows a request that was sent, and the
\* search tool is enabled exactly when the scrape gave no usable text: null
\* or the empty string.
C28_AnalyzeContentSettles ==
  /\ \A c \in SentCalls :
        /\ c.kind = "url" => c.scraped # NotScraped
        /\ c.tools <=> (c.kind = "url" /\ (c.scraped.isNull \/ c.scraped.text = ""))
  /\ app.last # << >> =>
        /\ app.last[1].outcome \in {"resolved", "rejected"}
        /\ app.last[1].outcome = "rejected" => app.last[1].message # ""
  /\ \A r \in app.reqs : r.stage = "scraping" => r.kind = "url" /\ r.scraped = NotScraped

\* C28, witness: the scrape of a URL gave null, the request was sent with
\* the search tool and was rejected with an error without a message.
C28_Witness ==
  /\ app.last # << >>
  /\ app.last[1].kind = "url"
  /\ app.last[1].scraped = scrapeUrl("blocked")
  /\ app.last[1].tools
  /\ app.last[1].outcome = "rejected"
  /\ app.last[1].message = "Failed to analyze content"

\* C28 as stated: the search tool is enabled exactly when the scrape gave
\* null.
C28_SearchToolExactlyOnNull ==
  \A c \in SentCalls :
     c.tools <=> (c.kind = "url" /\ c.scraped.isNull)

\* C27: an export is triggered only while status is 'complete' with the
\* result of a resolved analysis, never while the submission the user is
\* waiting for is being read or analysed and never after it has failed:
\* the result exported is that of the latest submission.
C27_ExportOnlyOfSettledAnalysis ==
  [][(handlePdfExport \/ handleWordExport)
        => /\ app.status = "complete"
           /\ app.result # << >>
           /\ \A r \in app.reqs : r.id # Len(app.submits)
           /\ app.result[1].req = Len(app.submits)]_vars

\* A request in flight whose submission the user has left: the App was
\* reset since (status 'idle'), or a later submission was made.
Stale(r) == r.id # Len(app.submits) \/ app.status = "idle"

\* C30: the completion of a request whose submission the user has left, by
\* resetApp or by a new submission, changes neither status nor result nor
\* error, and a result that is shown belongs to the latest submission.
C30_StaleCompletionChangesNothing ==
  [][/\ \A r \in app.reqs :
          (Stale(r) /\ r.id \notin Pending')
             => /\ app.status' = app.status
                /\ app.result' = app.result
                /\ app.error' = app.error
     /\ app.result' # << >> => app.result'[1].req = Len(app.submits')]_vars

\* The main views the App renders in the current state.
MainViews ==
  {v \in {"input", "processing", "result", "error"} :
     \/ v = "input" /\ ShowsInput
     \/ v = "processing" /\ ShowsProcessing
     \/ v = "result" /\ ShowsResult
     \/ v = "error" /\ ShowsError}

\* C31: in every reachable state of the App exactly one main view is
\* rendered; status 'idle' with a result and status 'complete' without one,
\* in which none is rendered, are not reached.
C31_ExactlyOneMainView ==
  /\ Cardinality(MainViews) = 1
  /\ ~(app.status = "idle" /\ app.result # << >>)
  /\ ~(app.status = "complete" /\ app.result = << >>)

\* A step in which a handler calls setError with a message: the size test
\* of handleFileUpload fails, or a catch block runs.
SetsErrorMessage ==
  \/ handleFileUpload /\ app.reqs' = app.reqs
  \/ FileReadFails
  \/ ModelFails

\* C32: whenever a handler calls setError with a message, the status
\* becomes 'error', the status in which the message is rendered.
C32_ErrorMessageBecomesVisible ==
  [][SetsErrorMessage => app.error' # << >> /\ ShowsError']_vars

\* The vertical position of the last line a wrapped paragraph draws.
LastLineY(op) == op.y + ((op.lines - 1) * LinePitch)

\* C33: every line the PDF sink draws for a wrapped plain paragraph lies
\* within the vertical extent of the page, whatever the number of wrapped
\* lines and the cursor position the paragraph starts at.
C33_WrappedLinesWithinPage ==
  \A k \in 1..Len(pdf.ops) :
     pdf.ops[k].op = "wrapped" =>
        /\ pdf.ops[k].y >= 0
        /\ LastLineY(pdf.ops[k]) <= PageHeight

\* Whether the page added by the operation at k receives a block: a block is
\* drawn after it and before any further page is added.
PageReceivesBlock(ops, k) ==
  \E j \in (k + 1)..Len(ops) :
     /\ PdfIsBlock(ops[j])
     /\ \A m \in (k + 1)..(j - 1) : ops[m].op # "addPage"

\* C34: every page the page check of the PDF sink has added has received a
\* block when the document is saved, so the document never ends with an
\* empty page.
C34_AddedPageReceivesBlock ==
  pdf.pc = "done" =>
     \A k \in 1..Len(pdf.ops) :
        pdf.ops[k].op = "addPage" => PageReceivesBlock(pdf.ops, k)

====
